---------------------------- MODULE Spec2Model ----------------------------
(***************************************************************************)
(* Model of the MCP tool-orchestration scripts:                            *)
(*   mcp_client.py          one question -> react agent -> markdown report *)
(*   simple_langgraph_mcp.py get_nasa -> get_news -> create_report         *)
(*   langgraph_mcp_app.py   NASAExplorerAgent and SpaceNewsWorkflow        *)
(* A text (Python str) is a sequence of one-character strings.             *)
(***************************************************************************)
EXTENDS Integers, Sequences, FiniteSets, TLC

(***************************************************************************)
(* Bounds of the model.                                                    *)
(***************************************************************************)
\* most ToolMessages in one agent response
MaxOutputs == 2
\* most tool requests in one planner reply
MaxCalls == 2
\* last second of the wall clock
MaxClock == 1

(***************************************************************************)
(* Characters and literals.                                                *)
(***************************************************************************)
Letters ==
  {"a","b","c","d","e","f","g","h","i","j","k","l","m","n","o","p","q","r",
   "s","t","u","v","w","x","y","z","A","B","C","D","E","F","G","H","I","J",
   "K","L","M","N","O","P","Q","R","S","T","U","V","W","X","Y","Z"}

Digits == {"0","1","2","3","4","5","6","7","8","9"}

\* \s of the re module, over the characters the model uses
IsSpace(c) == c \in {" ", "\t", "\n"}

\* \w of the re module: letters, digits and the underscore
IsWord(c) == c \in Letters \cup Digits \cup {"_"}

Http == <<"h","t","t","p">>
ColonSlashSlash == <<":","/","/">>

\* the literal prefixes of nasa_patterns; an emoji is one element per code point
LabelImageURL ==
  <<"U+1F5BC","U+FE0F"," ","I","m","a","g","e"," ","U","R","L",":"," ">>
LabelHDImage == <<"U+1F52D"," ","H","D"," ","I","m","a","g","e",":"," ">>
LabelImage == <<"U+1F517"," ","I","m","a","g","e",":"," ">>

\* (?:jpg|jpeg|png|gif), in the order of the alternation
Extensions == << <<"j","p","g">>, <<"j","p","e","g">>, <<"p","n","g">>, <<"g","i","f">> >>

\* each pattern is  label (https?://[^\s]+)  or  label (https?://[^\s]+\.ext)
nasa_patterns ==
  << [label |-> LabelImageURL, ext |-> FALSE],
     [label |-> LabelHDImage,  ext |-> FALSE],
     [label |-> LabelImage,    ext |-> TRUE],
     [label |-> << >>,         ext |-> TRUE] >>

(***************************************************************************)
(* Regular-expression matching, as re.findall computes it.                 *)
(***************************************************************************)
SetMin(S) == CHOOSE x \in S : \A y \in S : x <= y
SetMax(S) == CHOOSE x \in S : \A y \in S : x >= y

\* the literal lit occurs in text starting at index i
HasAt(text, i, lit) ==
  /\ i >= 1
  /\ i + Len(lit) - 1 <= Len(text)
  /\ \A k \in 1..Len(lit) : text[i + k - 1] = lit[k]

\* length of the match of https?:// at index i, 0 when there is none
SchemeLen(text, i) ==
  IF HasAt(text, i, Http \o <<"s">> \o ColonSlashSlash) THEN 8
  ELSE IF HasAt(text, i, Http \o ColonSlashSlash) THEN 7
  ELSE 0

\* last index of the run of non-space characters starting at i (i-1 when empty)
RunEnd(text, i) ==
  LET ws == {j \in i..Len(text) : IsSpace(text[j])}
  IN  IF ws = {} THEN Len(text) ELSE SetMin(ws) - 1

\* indices d in lo..hi where "." and one of the extensions start
DotExtAt(text, lo, hi) ==
  {d \in lo..hi : \E x \in 1..Len(Extensions) : HasAt(text, d, <<".">> \o Extensions[x])}

\* the index after "." and the extension that start at d
ExtEnd(text, d) ==
  LET x == CHOOSE y \in 1..Len(Extensions) : HasAt(text, d, <<".">> \o Extensions[y])
  IN  d + Len(Extensions[x])

\* index of the last character of the match of pattern p that starts at i,
\* 0 when p does not match at i. [^\s]+ is greedy and gives back characters
\* until the extension matches, so the last "." + extension of the run wins.
MatchEnd(p, text, i) ==
  LET s == i + Len(p.label)
      n == SchemeLen(text, s)
      u == s + n
      r == RunEnd(text, u)
  IN  IF ~HasAt(text, i, p.label) \/ n = 0 \/ r < u THEN 0
      ELSE IF ~p.ext THEN r
      ELSE LET dots == DotExtAt(text, u + 1, r)
           IN  IF dots = {} THEN 0 ELSE ExtEnd(text, SetMax(dots))

\* the character every match of p starts with
FirstChar(p) == IF p.label = << >> THEN Http[1] ELSE p.label[1]

\* re.findall(p, text) from index pos on: the groups of the leftmost
\* non-overlapping matches, in text order
RECURSIVE FindAllFrom(_, _, _)
FindAllFrom(p, text, pos) ==
  LET c == FirstChar(p)
      starts == {i \in pos..Len(text) : text[i] = c /\ MatchEnd(p, text, i) > 0}
  IN  IF starts = {} THEN << >>
      ELSE LET i == SetMin(starts)
               e == MatchEnd(p, text, i)
           IN  <<SubSeq(text, i + Len(p.label), e)>> \o FindAllFrom(p, text, e + 1)

FindAll(p, text) == FindAllFrom(p, text, 1)

(***************************************************************************)
(* mcp_client.py: extract_images_from_text                                 *)
(***************************************************************************)
\* elements of s in order, each kept at its first occurrence only
RemoveDuplicates(s) ==
  LET keep == {i \in 1..Len(s) : \A j \in 1..(i - 1) : s[j] # s[i]}
      F[k \in 0..Len(s)] ==
        IF k = 0 THEN << >>
        ELSE IF k \in keep THEN Append(F[k - 1], s[k]) ELSE F[k - 1]
  IN  F[Len(s)]

\* images.extend(matches) for every pattern, in the order of nasa_patterns
AllMatches(text) ==
  LET F[k \in 0..Len(nasa_patterns)] ==
        IF k = 0 THEN << >> ELSE F[k - 1] \o FindAll(nasa_patterns[k], text)
  IN  F[Len(nasa_patterns)]

\* url with "http://" rewritten to "https://"
UpgradeScheme(url) ==
  IF HasAt(url, 1, Http \o ColonSlashSlash)
    THEN Http \o <<"s">> \o SubSeq(url, Len(Http) + 1, Len(url))
    ELSE url

\* extract_images_from_text with every URL normalised to https
extract_images_upgrading_scheme(text) ==
  LET imgs == RemoveDuplicates(AllMatches(text))
  IN  [i \in 1..Len(imgs) |-> UpgradeScheme(imgs[i])]

extract_images_from_text(text) == RemoveDuplicates(AllMatches(text))


(***************************************************************************)
(* mcp_client.py: save_to_markdown                                         *)
(***************************************************************************)
\* output[:2000] and len(output) > 2000
TruncateLimit == 2000

\* the question's slug is cut to this many characters
SlugLimit == 50

\* "\n... (truncated)"
TruncationMarker ==
  <<"\n",".",".","."," ","(","t","r","u","n","c","a","t","e","d",")">>

\* lit in text
Contains(text, lit) == \E i \in 1..Len(text) : HasAt(text, i, lit)

\* s[:n]
Take(s, n) == SubSeq(s, 1, IF Len(s) < n THEN Len(s) ELSE n)

\* s.strip()
Strip(s) ==
  LET ns == {i \in 1..Len(s) : ~IsSpace(s[i])}
  IN  IF ns = {} THEN << >> ELSE SubSeq(s, SetMin(ns), SetMax(ns))

\* re.sub(r'[^\w\s-]', '', question)[:50].strip().replace(' ', '_')
KeepInSlug(c) == IsWord(c) \/ IsSpace(c) \/ c = "-"

\* re.sub(r'[^\w\s-]', '', s): the characters of s the pattern does not match
SubOutsideSlug(s) ==
  LET F[k \in 0..Len(s)] ==
        IF k = 0 THEN << >>
        ELSE IF KeepInSlug(s[k]) THEN Append(F[k - 1], s[k]) ELSE F[k - 1]
  IN  F[Len(s)]

safe_question(question) ==
  LET t == Strip(Take(SubOutsideSlug(question), SlugLimit))
  IN  [i \in 1..Len(t) |-> IF t[i] = " " THEN "_" ELSE t[i]]

\* f"{timestamp}_{safe_question}.md" under outputs/
Filename(timestamp, question) ==
  [timestamp |-> timestamp, slug |-> safe_question(question), suffix |-> ".md"]

\* all_images with each output's images put in front of the earlier ones
all_images_newest_first(tool_outputs) ==
  LET F[k \in 0..Len(tool_outputs)] ==
        IF k = 0 THEN << >>
        ELSE extract_images_from_text(tool_outputs[k]) \o F[k - 1]
  IN  F[Len(tool_outputs)]

\* all_images.extend(extract_images_from_text(output)) for every output
all_images(tool_outputs) ==
  LET F[k \in 0..Len(tool_outputs)] ==
        IF k = 0 THEN << >>
        ELSE F[k - 1] \o extract_images_from_text(tool_outputs[k])
  IN  F[Len(tool_outputs)]

\* Caption with the "mars" test made before the "apod"/"astronomy" test
CaptionMarsFirst(img_url) ==
  IF Contains(img_url, <<"m","a","r","s">>) THEN "Mars Rover Photo"
  ELSE IF Contains(img_url, <<"a","p","o","d">>)
            \/ Contains(img_url, <<"a","s","t","r","o","n","o","m","y">>)
    THEN "Astronomy Picture"
  ELSE "Image"

\* the caption chosen from the URL
Caption(img_url) ==
  IF Contains(img_url, <<"a","p","o","d">>)
       \/ Contains(img_url, <<"a","s","t","r","o","n","o","m","y">>)
    THEN "Astronomy Picture"
  ELSE IF Contains(img_url, <<"m","a","r","s">>) THEN "Mars Rover Photo"
  ELSE "Image"

\* the entries of the "## Images" section: caption, running number, URL
ImagesSection(tool_outputs) ==
  LET imgs == all_images(tool_outputs)
  IN  [i \in 1..Len(imgs) |->
         [caption |-> Caption(imgs[i]), number |-> i, url |-> imgs[i]]]

\* ToolOutputBody with the marker added from the limit on, not past it
ToolOutputBodyMarksAtLimit(output) ==
  Take(output, TruncateLimit)
    \o (IF Len(output) >= TruncateLimit THEN TruncationMarker ELSE << >>)

\* what stands between the fences of one "### Tool Output i" entry
ToolOutputBody(output) ==
  Take(output, TruncateLimit)
    \o (IF Len(output) > TruncateLimit THEN TruncationMarker ELSE << >>)

\* the entries of the "## Tool Outputs" section
ToolOutputsSection(tool_outputs) ==
  [i \in 1..Len(tool_outputs) |-> ToolOutputBody(tool_outputs[i])]

\* md_content, section by section; an empty sequence is an absent section
md_content(question, answer, tool_outputs, date) ==
  [date     |-> date,
   question |-> question,
   answer   |-> answer,
   images   |-> ImagesSection(tool_outputs),
   outputs  |-> ToolOutputsSection(tool_outputs)]

(***************************************************************************)
(* mcp_client.py: md_content as the text that write_text receives          *)
(***************************************************************************)
\* f"# MCP Query Result\n\n"
LitTitle ==
  <<"#"," ","M","C","P"," ","Q","u","e","r","y"," ","R","e","s","u","l","t",
    "\n","\n">>
\* f"**Date:** 
LitDate ==
  <<"*","*","D","a","t","e",":","*","*"," ">>
\* "\n\n"
LitBreak ==
  <<"\n","\n">>
\* f"## Question\n\n
LitQuestion ==
  <<"#","#"," ","Q","u","e","s","t","i","o","n","\n","\n">>
\* f"## Answer\n\n
LitAnswer ==
  <<"#","#"," ","A","n","s","w","e","r","\n","\n">>
\* "## Images\n\n"
LitImages ==
  <<"#","#"," ","I","m","a","g","e","s","\n","\n">>
\* f"### {caption} {i}\n\n"
LitHeading ==
  <<"#","#","#"," ">>
\* f"![{caption} {i}]({img_url})\n\n"
LitEmbed ==
  <<"!","[">>
\* "]("
LitTarget ==
  <<"]","(">>
\* ")\n\n"
LitTargetEnd ==
  <<")","\n","\n">>
\* f"[Direct Link]({img_url})\n\n"
LitDirectLink ==
  <<"[","D","i","r","e","c","t"," ","L","i","n","k","]","(">>
\* "## Tool Outputs\n\n"
LitToolOutputs ==
  <<"#","#"," ","T","o","o","l"," ","O","u","t","p","u","t","s","\n","\n">>
\* "<details>\n<summary>Click to expand raw tool outputs</summary>\n\n"
LitDetails ==
  <<"<","d","e","t","a","i","l","s",">","\n","<","s","u","m","m","a","r",
    "y",">","C","l","i","c","k"," ","t","o"," ","e","x","p","a","n","d"," ",
    "r","a","w"," ","t","o","o","l"," ","o","u","t","p","u","t","s","<","/",
    "s","u","m","m","a","r","y",">","\n","\n">>
\* f"### Tool Output {i}\n\n"
LitToolOutput ==
  <<"#","#","#"," ","T","o","o","l"," ","O","u","t","p","u","t"," ">>
\* the opening code fence (three U+0060) and its line break
LitFence ==
  <<"U+0060","U+0060","U+0060","\n">>
\* the line break, the closing code fence and two line breaks
LitFenceEnd ==
  <<"\n","U+0060","U+0060","U+0060","\n","\n">>
\* "</details>\n"
LitDetailsEnd ==
  <<"<","/","d","e","t","a","i","l","s",">","\n">>
\* the day, hour and minute the clock counts the seconds of
LitDay ==
  <<"2","0","2","5","-","0","1","-","0","1"," ","0","0",":","0","0",":">>

\* str(n) of a number n >= 0
RECURSIVE IntText(_)
IntText(n) ==
  LET digit == <<"0","1","2","3","4","5","6","7","8","9">>[(n % 10) + 1]
  IN  IF n < 10 THEN <<digit>> ELSE IntText(n \div 10) \o <<digit>>

\* datetime.now().strftime(...) of line 62, at second date of the minute
DateText(date) == LitDay \o (IF date < 10 THEN <<"0">> ELSE << >>) \o IntText(date)

\* the characters of a caption
CaptionText(caption) ==
  IF caption = "Astronomy Picture"
    THEN <<"A","s","t","r","o","n","o","m","y"," ","P","i","c","t","u","r","e">>
  ELSE IF caption = "Mars Rover Photo"
    THEN <<"M","a","r","s"," ","R","o","v","e","r"," ","P","h","o","t","o">>
  ELSE <<"I","m","a","g","e">>

\* the three lines of one image of the "## Images" section
ImageText(img) ==
  LET label == CaptionText(img.caption) \o <<" ">> \o IntText(img.number)
  IN  LitHeading \o label \o LitBreak
        \o LitEmbed \o label \o LitTarget \o img.url \o LitTargetEnd
        \o LitDirectLink \o img.url \o LitTargetEnd

\* one "### Tool Output i" entry with its fenced body
OutputText(i, body) ==
  LitToolOutput \o IntText(i) \o LitBreak \o LitFence \o body \o LitFenceEnd

\* the string md_content of save_to_markdown, from its sections
md_text(md) ==
  LET images[k \in 0..Len(md.images)] ==
        IF k = 0 THEN << >> ELSE images[k - 1] \o ImageText(md.images[k])
      outputs[k \in 0..Len(md.outputs)] ==
        IF k = 0 THEN << >> ELSE outputs[k - 1] \o OutputText(k, md.outputs[k])
  IN  LitTitle
        \o LitDate \o DateText(md.date) \o LitBreak
        \o LitQuestion \o md.question \o LitBreak
        \o LitAnswer \o md.answer \o LitBreak
        \o (IF md.images = << >> THEN << >>
            ELSE LitImages \o images[Len(md.images)])
        \o (IF md.outputs = << >> THEN << >>
            ELSE LitToolOutputs \o LitDetails \o outputs[Len(md.outputs)]
                   \o LitDetailsEnd)

(***************************************************************************)
(* Inputs: questions, answers and tool outputs the collaborators may give. *)
(***************************************************************************)
\* "What's up?"
QuestionWhatsUp == <<"W","h","a","t","'","s"," ","u","p","?">>
\* "mars now"
QuestionMars == <<"m","a","r","s"," ","n","o","w">>
Questions == {QuestionWhatsUp, QuestionMars}

\* "mars\tnow\nor never?": an argument with a tab and a line break in it
QuestionTab ==
  <<"m","a","r","s","\t","n","o","w","\n","o","r"," ","n","e","v","e","r","?">>
\* "  up - now  "
QuestionPadded == <<" "," ","u","p"," ","-"," ","n","o","w"," "," ">>
\* 49 times "a", a space, 10 times "b": the cut falls right after the space
QuestionLong ==
  LET chars == [i \in 1..60 |-> IF i < 50 THEN "a" ELSE IF i = 50 THEN " " ELSE "b"]
  IN  SubSeq(chars, 1, 60)

\* the questions the file name is checked on
SlugQuestions ==
  {QuestionWhatsUp, QuestionMars, QuestionTab, QuestionPadded, QuestionLong}

\* the content of the agent's last message
Answers == {<<"f","i","n","e">>, <<"E","r","r","o","r",":"," ","d","o","w","n">>}

UrlApod == Http \o ColonSlashSlash \o <<"a","p","o","d",".","j","p","g">>
UrlMars == Http \o <<"s">> \o ColonSlashSlash \o <<"m","a","r","s",".","p","n","g">>

\* "🖼️ Image URL: http://apod.jpg"
TextLabelled == LabelImageURL \o UrlApod
\* "http://apod.jpg https://mars.png"
TextTwo == UrlApod \o <<" ">> \o UrlMars
\* "https://mars.png\nhttp://apod.jpg"
TextReversed == UrlMars \o <<"\n">> \o UrlApod
\* "none"
TextNone == <<"n","o","n","e">>

\* a text of n characters: "https://mars.png " and then "abcdefg " repeated
FillerBase == <<"a","b","c","d","e","f","g"," ">>
LongText(n) ==
  LET head == UrlMars \o <<" ">>
      chars == [i \in 1..n |->
                  IF i <= Len(head) THEN head[i]
                  ELSE FillerBase[((i - 1) % Len(FillerBase)) + 1]]
  IN  SubSeq(chars, 1, n)

\* lengths at, just over and well over the truncation limit
LongTexts ==
  {LongText(n) : n \in {TruncateLimit, TruncateLimit + 1, TruncateLimit + 5}}

ShortTexts == {TextLabelled, TextTwo, TextReversed, TextNone}

Texts == ShortTexts \cup LongTexts

\* URLs of other shapes: characters after the extension, no extension, both
\* caption keywords, a keyword in capitals, no keyword
UrlApodQuery == UrlApod \o <<"?","x">>
UrlAstronomy ==
  Http \o <<"s">> \o ColonSlashSlash \o <<"a","s","t","r","o","n","o","m","y">>
UrlApodMars ==
  Http \o ColonSlashSlash \o <<"m","a","r","s","-","a","p","o","d",".","g","i","f">>
UrlCapitals == Http \o ColonSlashSlash \o <<"M","A","R","S",".","j","p","e","g">>
UrlPlain == Http \o ColonSlashSlash \o <<"x",".","j","p","g">>

\* "🖼️ Image URL: http://apod.jpg\nhttp://apod.jpg"
TextRestated == LabelImageURL \o UrlApod \o <<"\n">> \o UrlApod
\* "🖼️ Image URL: http://apod.jpg?x"
TextQuery == LabelImageURL \o UrlApodQuery
\* "🖼️ Image URL: http://apod.jpg?x\nhttp://apod.jpg?x"
TextQueryRestated == LabelImageURL \o UrlApodQuery \o <<"\n">> \o UrlApodQuery
\* "🔭 HD Image: https://astronomy"
TextHD == LabelHDImage \o UrlAstronomy
\* "🔗 Image: https://mars.png\n\n🔗 Image: http://mars-apod.gif\n\n"
TextRover ==
  LabelImage \o UrlMars \o <<"\n","\n">> \o LabelImage \o UrlApodMars \o <<"\n","\n">>
\* "http://MARS.jpeg http://x.jpg http://MARS.jpeg"
TextCapitals == UrlCapitals \o <<" ">> \o UrlPlain \o <<" ">> \o UrlCapitals

\* the tool outputs the extraction is checked on
ExtractTexts ==
  {TextLabelled, TextRestated, TextQuery, TextQueryRestated, TextHD, TextRover,
   TextCapitals, TextTwo, TextReversed, TextNone}

(***************************************************************************)
(* State.                                                                  *)
(***************************************************************************)
VARIABLES
  prog,       \* the script that was started
  pc,         \* where its main coroutine stands
  status,     \* how main ended: "running", "exit1", "answered", "error", ...
  raised,     \* the call whose exception ended the run, "none" when none did
  clock,      \* datetime.now(), in seconds
  files,      \* the outputs/ directory: file name -> content
  question,   \* mcp_client: the question from the command line
  response,   \* mcp_client: response["messages"] of the agent
  returned,   \* what main got back from answer_question / the workflow
  node,       \* workflows: the node the graph stands at
  entered,    \* workflows: the nodes entered so far in this run, in order
  state,      \* workflows: the State / AgentState of the run
  tools,      \* the tool list the running step resolves names against
  tool_calls, \* delegated step: response.tool_calls not yet handled
  plans,      \* delegated step -> the tool_calls its planner reply held
  invoked,    \* delegated step -> str(result) of each tool.ainvoke, in order
  fetches,    \* client.get_tools() calls of the pipeline run so far
  results,    \* NASAExplorerAgent: what each explore_nasa call delivered
  runs        \* mcp_client started twice: each process inside save_to_markdown

clientVars == <<question, response, runs>>
wfVars == <<node, entered, state, tools, tool_calls, plans, invoked, fetches>>
vars ==
  <<prog, pc, status, raised, clock, files, question, response, returned,
    node, entered, state, tools, tool_calls, plans, invoked, fetches, results,
    runs>>

Programs == {"mcp_client", "simple_langgraph_mcp", "langgraph_mcp_app"}

NoValue == [none |-> TRUE]

HumanMessage(content) == [type |-> "human", content |-> content]
AIMessage(content) == [type |-> "ai", content |-> content]
ToolMessage(content) == [type |-> "tool", content |-> content]

\* the state every script starts in, before main has run
Start ==
  /\ pc = "main"
  /\ status = "running"
  /\ raised = "none"
  /\ clock = 0
  /\ files = << >>
  /\ question = << >>
  /\ response = << >>
  /\ returned = NoValue
  /\ node = "none"
  /\ entered = << >>
  /\ state = NoValue
  /\ tools = << >>
  /\ tool_calls = << >>
  /\ plans = << >>
  /\ invoked = << >>
  /\ fetches = 0
  /\ results = << >>
  /\ runs = << >>

Init == prog \in Programs /\ Start

(***************************************************************************)
(* mcp_client.py                                                           *)
(***************************************************************************)
\* msg.content of every ToolMessage of the response, in order
ToolOutputsOf(messages) ==
  LET F[k \in 0..Len(messages)] ==
        IF k = 0 THEN << >>
        ELSE IF messages[k].type = "tool"
               THEN Append(F[k - 1], messages[k].content)
               ELSE F[k - 1]
  IN  F[Len(messages)]

\* filepath.write_text(md_content): the file holds exactly the new content
WriteText(dir, name, content) == (name :> content) @@ dir

\* main(): the credential and usage checks, then answer_question is entered
ClientMain ==
  /\ prog = "mcp_client" /\ pc = "main"
  /\ \E key \in BOOLEAN, args \in BOOLEAN :
       IF ~key \/ ~args
         THEN /\ pc' = "end" /\ status' = "exit1"
              /\ UNCHANGED question
         ELSE /\ pc' = "get_tools"
              /\ question' \in Questions
              /\ UNCHANGED status
  /\ UNCHANGED <<prog, raised, clock, files, response, returned, results>>
  /\ UNCHANGED wfVars
  /\ UNCHANGED runs

\* answer_question: await client.get_tools(); a failure reaches main's except
ClientGetTools ==
  /\ prog = "mcp_client" /\ pc = "get_tools"
  /\ \/ /\ pc' = "agent"
        /\ response' = <<HumanMessage(question)>>
        /\ UNCHANGED <<status, raised>>
     \/ /\ pc' = "end" /\ status' = "error" /\ raised' = "get_tools"
        /\ UNCHANGED response
  /\ UNCHANGED <<prog, clock, files, question, returned, results>>
  /\ UNCHANGED wfVars
  /\ UNCHANGED runs

\* inside agent.ainvoke: the model asks for a tool and its ToolMessage follows
AgentToolRound ==
  /\ prog = "mcp_client" /\ pc = "agent"
  /\ Len(ToolOutputsOf(response)) < MaxOutputs
  /\ \E t \in ShortTexts :
       response' = response \o <<AIMessage(<< >>), ToolMessage(t)>>
  /\ UNCHANGED <<prog, pc, status, raised, clock, files, question, returned, results>>
  /\ UNCHANGED wfVars
  /\ UNCHANGED runs

\* AgentRaise with the outputs gathered so far saved on the way out
AgentRaiseSavesPartial ==
  /\ prog = "mcp_client" /\ pc = "agent"
  /\ pc' = "end" /\ status' = "error" /\ raised' = "agent"
  /\ files' = WriteText(files, Filename(clock, question),
                md_content(question, << >>, ToolOutputsOf(response), clock))
  /\ UNCHANGED <<prog, clock, question, response, returned, results>>
  /\ UNCHANGED wfVars
  /\ UNCHANGED runs

\* agent.ainvoke raises: answer_question is left, main's except prints
AgentRaise ==
  /\ prog = "mcp_client" /\ pc = "agent"
  /\ pc' = "end" /\ status' = "error" /\ raised' = "agent"
  /\ UNCHANGED <<prog, clock, files, question, response, returned, results>>
  /\ UNCHANGED wfVars
  /\ UNCHANGED runs

\* agent.ainvoke returns: the last message is the final answer
AgentFinish ==
  /\ prog = "mcp_client" /\ pc = "agent"
  /\ \E a \in Answers : response' = Append(response, AIMessage(a))
  /\ pc' = "save"
  /\ UNCHANGED <<prog, status, raised, clock, files, question, returned, results>>
  /\ UNCHANGED wfVars
  /\ UNCHANGED runs

\* answer_question after the agent: collect, save_to_markdown, return.
\* Both datetime.now() reads of save_to_markdown fall into this one step.
ClientSave ==
  /\ prog = "mcp_client" /\ pc = "save"
  /\ LET tool_outputs == ToolOutputsOf(response)
         final_answer == response[Len(response)].content
         filepath     == Filename(clock, question)
     IN  /\ files' = WriteText(files, filepath,
                       md_content(question, final_answer, tool_outputs, clock))
         /\ returned' = [answer |-> final_answer, filepath |-> filepath]
  /\ pc' = "end" /\ status' = "answered"
  /\ UNCHANGED <<prog, raised, clock, question, response, results>>
  /\ UNCHANGED wfVars
  /\ UNCHANGED runs

\* the wall clock advances while mcp_client runs
Tick ==
  /\ prog = "mcp_client" /\ pc # "end"
  /\ clock < MaxClock
  /\ clock' = clock + 1
  /\ UNCHANGED <<prog, pc, status, raised, files, question, response, returned, results>>
  /\ UNCHANGED wfVars
  /\ UNCHANGED runs

ClientNext ==
  \/ ClientMain
  \/ ClientGetTools
  \/ AgentToolRound
  \/ AgentRaise
  \/ AgentFinish
  \/ ClientSave
  \/ Tick

(***************************************************************************)
(* simple_langgraph_mcp.py                                                 *)
(***************************************************************************)
\* the @mcp.tool() functions of server.py, as client.get_tools() lists them
ServerTools ==
  <<"web_search", "roll_dice", "context7_search", "get_top_headlines",
    "search_news", "get_astronomy_picture", "get_mars_rover_photos">>

\* the tool names a planner reply may hold: two of the server, one of no server
PlannerNames == {"get_astronomy_picture", "search_news", "no_such_tool"}

\* "Error: down", a text as the server's tools return it for a failed provider
TextError == <<"E","r","r","o","r",":"," ","d","o","w","n">>

\* str(result) of a tool.ainvoke that returns
ToolResults == {TextLabelled, TextError}

\* "Get space updates"
PromptUpdates ==
  <<"G","e","t"," ","s","p","a","c","e"," ","u","p","d","a","t","e","s">>
\* "Get today's astronomy picture of the day"
PromptApod ==
  <<"G","e","t"," ","t","o","d","a","y","'","s"," ","a","s","t","r","o",
    "n","o","m","y"," ","p","i","c","t","u","r","e"," ","o","f"," ","t",
    "h","e"," ","d","a","y">>

\* the sequences over S of length at most n
SeqsUpTo(S, n) == UNION {[1..k -> S] : k \in 0..n}

Range(f) == {f[x] : x \in DOMAIN f}

\* SimpleEdges with get_nasa wired past get_news
SimpleEdgesSkipNews ==
  [get_nasa |-> "create_report", get_news |-> "create_report", create_report |-> "END"]

\* workflow.set_entry_point and workflow.add_edge of create_workflow
SimpleEntryPoint == "get_nasa"
SimpleEdges ==
  [get_nasa |-> "get_news", get_news |-> "create_report", create_report |-> "END"]

DelegatedNodes == {"get_nasa", "get_news"}

\* the slot the delegated step assigns
Slot(n) == IF n = "get_nasa" THEN "nasa_data" ELSE "news_data"

\* where a node of the simple graph starts
FirstPc(n) ==
  IF n \in DelegatedNodes THEN "create_agent"
  ELSE IF n = "create_report" THEN "llm"
  ELSE "end"

\* an exception leaves workflow.ainvoke: main's except prints it, no result
SimpleAbort(call) ==
  /\ pc' = "end" /\ status' = "error" /\ raised' = call
  /\ UNCHANGED <<node, entered, returned>>

\* main(): without the key nothing of the workflow runs
SimpleMain ==
  /\ prog = "simple_langgraph_mcp" /\ pc = "main"
  /\ \E key \in BOOLEAN, test_only \in BOOLEAN :
       IF key THEN pc' = "test" /\ UNCHANGED status
       ELSE IF test_only THEN pc' = "test_only" /\ UNCHANGED status
       ELSE pc' = "end" /\ status' = "no_key"
  /\ UNCHANGED <<prog, raised, clock, files, returned, results>>
  /\ UNCHANGED clientVars
  /\ UNCHANGED wfVars

\* test_simple_tool_call(): its own client and tool list, before any workflow;
\* an exception here is caught by nobody
TestSimpleToolCall ==
  /\ prog = "simple_langgraph_mcp" /\ pc \in {"test", "test_only"}
  /\ \/ /\ pc' = IF pc = "test" THEN "workflow" ELSE "end"
        /\ status' = IF pc = "test" THEN status ELSE "no_key"
        /\ UNCHANGED raised
     \/ /\ pc' = "end" /\ status' = "crashed" /\ raised' = "test"
  /\ UNCHANGED <<prog, clock, files, returned, results>>
  /\ UNCHANGED clientVars
  /\ UNCHANGED wfVars

\* main(): create_workflow(), initial_state, workflow.ainvoke enters the graph
SimpleInvoke ==
  /\ prog = "simple_langgraph_mcp" /\ pc = "workflow"
  /\ state' = [messages     |-> <<HumanMessage(PromptUpdates)>>,
               nasa_data    |-> << >>,
               news_data    |-> << >>,
               final_report |-> << >>]
  /\ node' = SimpleEntryPoint
  /\ entered' = <<SimpleEntryPoint>>
  /\ pc' = FirstPc(SimpleEntryPoint)
  /\ plans' = [n \in DelegatedNodes |-> << >>]
  /\ invoked' = [n \in DelegatedNodes |-> << >>]
  /\ fetches' = 0
  /\ UNCHANGED <<prog, status, raised, clock, files, returned, results, tools, tool_calls>>
  /\ UNCHANGED clientVars

\* await create_mcp_agent(): a new client and a new client.get_tools()
CreateMcpAgent(n) ==
  /\ prog = "simple_langgraph_mcp" /\ node = n /\ pc = "create_agent"
  /\ \/ /\ tools' = ServerTools
        /\ fetches' = fetches + 1
        /\ pc' = "plan"
        /\ UNCHANGED <<status, raised, node, entered, returned>>
     \/ /\ SimpleAbort("get_tools")
        /\ UNCHANGED <<tools, fetches>>
  /\ UNCHANGED <<prog, clock, files, results, state, tool_calls, plans, invoked>>
  /\ UNCHANGED clientVars

\* the messages of the state after the step built its prompt
PromptAppended(n, st) ==
  IF n = "get_nasa"
    THEN [st EXCEPT !.messages = Append(@, HumanMessage(PromptApod))]
    ELSE st

\* await llm_with_tools.ainvoke(messages): the planner's reply
Plan(n) ==
  /\ prog = "simple_langgraph_mcp" /\ node = n /\ pc = "plan"
  /\ state' = PromptAppended(n, state)
  /\ \/ /\ \E calls \in SeqsUpTo(PlannerNames, MaxCalls) :
             /\ tool_calls' = calls
             /\ plans' = [plans EXCEPT ![n] = calls]
        /\ pc' = "calls"
        /\ UNCHANGED <<status, raised, node, entered, returned>>
     \/ /\ SimpleAbort("planner")
        /\ UNCHANGED <<tool_calls, plans>>
  /\ UNCHANGED <<prog, clock, files, results, tools, invoked, fetches>>
  /\ UNCHANGED clientVars

\* the state after the step handled one tool.ainvoke result
ResultStored(n, st, result) == [st EXCEPT ![Slot(n)] = result]

\* the assignments a delegated step made to its slot: one per tool.ainvoke
\* that returned
SlotWrites(n) == Len(invoked[n])

\* one turn of "for tool_call in response.tool_calls": the first tool of that
\* name is invoked and its result assigned; a name of no tool is passed over
ToolCall(n) ==
  /\ prog = "simple_langgraph_mcp" /\ node = n /\ pc = "calls"
  /\ tool_calls # << >>
  /\ LET tool_name == Head(tool_calls)
     IN  IF tool_name \in Range(tools)
           THEN \/ /\ \E result \in ToolResults :
                        /\ state' = ResultStored(n, state, result)
                        /\ invoked' = [invoked EXCEPT ![n] = Append(@, result)]
                   /\ tool_calls' = Tail(tool_calls)
                   /\ UNCHANGED <<pc, status, raised, node, entered, returned>>
                \/ /\ SimpleAbort("tool")
                   /\ UNCHANGED <<state, invoked, tool_calls>>
           ELSE /\ tool_calls' = Tail(tool_calls)
                /\ UNCHANGED <<pc, status, raised, node, entered, returned, state, invoked>>
  /\ UNCHANGED <<prog, clock, files, results, tools, plans, fetches>>
  /\ UNCHANGED clientVars

\* "return state": the graph follows the node's edge
StepReturn(n) ==
  /\ prog = "simple_langgraph_mcp" /\ node = n /\ pc = "calls"
  /\ tool_calls = << >>
  /\ node' = SimpleEdges[n]
  /\ entered' = Append(entered, SimpleEdges[n])
  /\ pc' = FirstPc(SimpleEdges[n])
  /\ UNCHANGED <<prog, status, raised, clock, files, returned, results>>
  /\ UNCHANGED <<state, tools, tool_calls, plans, invoked, fetches>>
  /\ UNCHANGED clientVars

GetNasaCreateAgent == CreateMcpAgent("get_nasa")
GetNasaPlan == Plan("get_nasa")
GetNasaToolCall == ToolCall("get_nasa")
GetNasaReturn == StepReturn("get_nasa")

GetNewsCreateAgent == CreateMcpAgent("get_news")
GetNewsPlan == Plan("get_news")
GetNewsToolCall == ToolCall("get_news")
GetNewsReturn == StepReturn("get_news")

\* CreateReport with a failing llm.ainvoke turned into a report text
CreateReportDegrades ==
  /\ prog = "simple_langgraph_mcp" /\ node = "create_report" /\ pc = "llm"
  /\ \/ /\ \E content \in Answers :
             /\ state' = [state EXCEPT !.final_report = content]
             /\ returned' = content
        /\ node' = SimpleEdges["create_report"]
        /\ pc' = "end" /\ status' = "reported"
        /\ UNCHANGED <<raised, entered>>
     \/ /\ SimpleAbort("planner")
        /\ state' = [state EXCEPT !.final_report = TextError]
  /\ UNCHANGED <<prog, clock, files, results, tools, tool_calls, plans, invoked, fetches>>
  /\ UNCHANGED clientVars

\* create_report: one llm.ainvoke; then the END edge, and main prints
\* result["final_report"]
CreateReport ==
  /\ prog = "simple_langgraph_mcp" /\ node = "create_report" /\ pc = "llm"
  /\ \/ /\ \E content \in Answers :
             /\ state' = [state EXCEPT !.final_report = content]
             /\ returned' = content
        /\ node' = SimpleEdges["create_report"]
        /\ pc' = "end" /\ status' = "reported"
        /\ UNCHANGED <<raised, entered>>
     \/ /\ SimpleAbort("planner")
        /\ UNCHANGED state
  /\ UNCHANGED <<prog, clock, files, results, tools, tool_calls, plans, invoked, fetches>>
  /\ UNCHANGED clientVars

SimpleNext ==
  \/ SimpleMain
  \/ TestSimpleToolCall
  \/ SimpleInvoke
  \/ GetNasaCreateAgent
  \/ GetNasaPlan
  \/ GetNasaToolCall
  \/ GetNasaReturn
  \/ GetNewsCreateAgent
  \/ GetNewsPlan
  \/ GetNewsToolCall
  \/ GetNewsReturn
  \/ CreateReport

(***************************************************************************)
(* langgraph_mcp_app.py                                                    *)
(***************************************************************************)
\* the queries of Demo 1
Queries ==
  <<"What's today's astronomy picture about?",
    "Show me recent Mars rover photos",
    "Search for news about space exploration">>

\* str(e) of an exception of the agent: "down"
ErrorMessages == {<<"d","o","w","n">>}

\* "Error: "
ErrorPrefix == <<"E","r","r","o","r",":"," ">>

\* "Explore today's space content"
DefaultTask ==
  <<"E","x","p","l","o","r","e"," ","t","o","d","a","y","'","s"," ","s",
    "p","a","c","e"," ","c","o","n","t","e","n","t">>
\* "Search for recent space and astronomy news"
PromptNews ==
  <<"S","e","a","r","c","h"," ","f","o","r"," ","r","e","c","e","n","t",
    " ","s","p","a","c","e"," ","a","n","d"," ","a","s","t","r","o","n",
    "o","m","y"," ","n","e","w","s">>

\* what self.agent.ainvoke did: it returned messages, or raised e
AgentOutcomes ==
  {[raises |-> FALSE, text |-> a] : a \in Answers}
    \cup {[raises |-> TRUE, text |-> m] : m \in ErrorMessages}

\* explore_nasa: what the caller gets for an outcome of the agent call.
\* "return" is a returned value, "raise" an exception leaving the method.
explore_nasa(outcome) ==
  IF outcome.raises
    THEN [kind |-> "return", value |-> ErrorPrefix \o outcome.text]
    ELSE [kind |-> "return", value |-> outcome.text]

\* response["messages"] of a react agent for a prompt: the prompt, at most one
\* round of tool use, the final answer
AgentResponses(prompt) ==
  {<<HumanMessage(prompt), AIMessage(a)>> : a \in Answers}
    \cup {<<HumanMessage(prompt), AIMessage(<< >>), ToolMessage(t), AIMessage(a)>> :
            t \in ToolResults, a \in Answers}

\* workflow.set_entry_point and workflow.add_edge of _build_workflow
AppEntryPoint == "get_astronomy_picture"
AppEdges ==
  [get_astronomy_picture |-> "search_space_news",
   search_space_news     |-> "analyze_results",
   analyze_results       |-> "END"]

\* an exception nobody catches: it leaves run() and main()
AppCrash(call) ==
  /\ pc' = "end" /\ status' = "crashed" /\ raised' = call

\* the __main__ guard: no key, no main()
AppMain ==
  /\ prog = "langgraph_mcp_app" /\ pc = "main"
  /\ \E key \in BOOLEAN :
       IF key THEN pc' = "explorer_init" /\ UNCHANGED status
       ELSE pc' = "end" /\ status' = "exit1"
  /\ UNCHANGED <<prog, raised, clock, files, returned, results>>
  /\ UNCHANGED clientVars
  /\ UNCHANGED wfVars

\* NASAExplorerAgent.initialize
ExplorerInitialize ==
  /\ prog = "langgraph_mcp_app" /\ pc = "explorer_init"
  /\ \/ /\ tools' = ServerTools
        /\ pc' = "explore"
        /\ UNCHANGED <<status, raised>>
     \/ /\ AppCrash("get_tools")
        /\ UNCHANGED tools
  /\ UNCHANGED <<prog, clock, files, returned, results>>
  /\ UNCHANGED <<node, entered, state, tool_calls, plans, invoked, fetches>>
  /\ UNCHANGED clientVars

\* main(): result = await explorer.explore_nasa(query), for the next query
ExploreNasa ==
  /\ prog = "langgraph_mcp_app" /\ pc = "explore"
  /\ Len(results) < Len(Queries)
  /\ \E outcome \in AgentOutcomes :
       results' = Append(results,
                    [query |-> Queries[Len(results) + 1],
                     agent_raised |-> outcome.raises,
                     got |-> explore_nasa(outcome)])
  /\ UNCHANGED <<prog, pc, status, raised, clock, files, returned>>
  /\ UNCHANGED clientVars
  /\ UNCHANGED wfVars

\* explorer.cleanup() after the last query
ExplorerCleanup ==
  /\ prog = "langgraph_mcp_app" /\ pc = "explore"
  /\ Len(results) = Len(Queries)
  /\ \/ pc' = "workflow_init" /\ UNCHANGED <<status, raised>>
     \/ AppCrash("cleanup")
  /\ UNCHANGED <<prog, clock, files, returned, results>>
  /\ UNCHANGED clientVars
  /\ UNCHANGED wfVars

\* SpaceNewsWorkflow.initialize: the one client.get_tools() of the workflow
WorkflowInitialize ==
  /\ prog = "langgraph_mcp_app" /\ pc = "workflow_init"
  /\ \/ /\ tools' = ServerTools
        /\ fetches' = fetches + 1
        /\ pc' = "run"
        /\ UNCHANGED <<status, raised>>
     \/ /\ AppCrash("get_tools")
        /\ UNCHANGED <<tools, fetches>>
  /\ UNCHANGED <<prog, clock, files, returned, results>>
  /\ UNCHANGED <<node, entered, state, tool_calls, plans, invoked>>
  /\ UNCHANGED clientVars

\* SpaceNewsWorkflow.run: initial_state, self.workflow.ainvoke enters the graph
WorkflowRun ==
  /\ prog = "langgraph_mcp_app" /\ pc = "run"
  /\ state' = [messages |-> << >>, task |-> DefaultTask, result |-> << >>]
  /\ node' = AppEntryPoint
  /\ entered' = <<AppEntryPoint>>
  /\ pc' = "node"
  /\ UNCHANGED <<prog, status, raised, clock, files, returned, results>>
  /\ UNCHANGED <<tools, tool_calls, plans, invoked, fetches>>
  /\ UNCHANGED clientVars

\* get_astronomy_picture: a react agent over self.tools answers the prompt
AppGetAstronomyPicture ==
  /\ prog = "langgraph_mcp_app" /\ pc = "node" /\ node = "get_astronomy_picture"
  /\ \/ /\ \E r \in AgentResponses(PromptApod) :
             state' = [state EXCEPT !.messages = r]
        /\ node' = AppEdges[node]
        /\ entered' = Append(entered, AppEdges[node])
        /\ UNCHANGED <<pc, status, raised>>
     \/ /\ AppCrash("planner")
        /\ UNCHANGED <<state, node, entered>>
  /\ UNCHANGED <<prog, clock, files, returned, results>>
  /\ UNCHANGED <<tools, tool_calls, plans, invoked, fetches>>
  /\ UNCHANGED clientVars

\* search_space_news: the agent's messages are added to the state's
AppSearchSpaceNews ==
  /\ prog = "langgraph_mcp_app" /\ pc = "node" /\ node = "search_space_news"
  /\ \/ /\ \E r \in AgentResponses(PromptNews) :
             state' = [state EXCEPT !.messages = @ \o r]
        /\ node' = AppEdges[node]
        /\ entered' = Append(entered, AppEdges[node])
        /\ UNCHANGED <<pc, status, raised>>
     \/ /\ AppCrash("planner")
        /\ UNCHANGED <<state, node, entered>>
  /\ UNCHANGED <<prog, clock, files, returned, results>>
  /\ UNCHANGED <<tools, tool_calls, plans, invoked, fetches>>
  /\ UNCHANGED clientVars

\* analyze_results: self.llm.ainvoke; then the END edge and run() returns
\* result["result"] to main
AppAnalyzeResults ==
  /\ prog = "langgraph_mcp_app" /\ pc = "node" /\ node = "analyze_results"
  /\ \/ /\ \E content \in Answers :
             /\ state' = [state EXCEPT !.result = content]
             /\ returned' = content
        /\ node' = AppEdges[node]
        /\ pc' = "cleanup"
        /\ UNCHANGED <<status, raised>>
     \/ /\ AppCrash("planner")
        /\ UNCHANGED <<state, node, returned>>
  /\ UNCHANGED <<prog, clock, files, results, entered>>
  /\ UNCHANGED <<tools, tool_calls, plans, invoked, fetches>>
  /\ UNCHANGED clientVars

\* main(): the result is printed, workflow.cleanup()
WorkflowCleanup ==
  /\ prog = "langgraph_mcp_app" /\ pc = "cleanup"
  /\ \/ pc' = "end" /\ status' = "completed" /\ UNCHANGED raised
     \/ AppCrash("cleanup")
  /\ UNCHANGED <<prog, clock, files, returned, results>>
  /\ UNCHANGED clientVars
  /\ UNCHANGED wfVars

AppNext ==
  \/ AppMain
  \/ ExplorerInitialize
  \/ ExploreNasa
  \/ ExplorerCleanup
  \/ WorkflowInitialize
  \/ WorkflowRun
  \/ AppGetAstronomyPicture
  \/ AppSearchSpaceNews
  \/ AppAnalyzeResults
  \/ WorkflowCleanup

Next == ClientNext \/ SimpleNext \/ AppNext

Spec == Init /\ [][Next]_vars

(***************************************************************************)
(* save_to_markdown on its own: answer_question stands right before the    *)
(* call, with any response the agent can have returned.                    *)
(***************************************************************************)
\* the messages of a response whose ToolMessages hold outs, ending in answer a
ResponseOf(q, outs, a) ==
  <<HumanMessage(q)>>
    \o [i \in 1..(2 * Len(outs)) |->
          IF i % 2 = 1 THEN AIMessage(<< >>) ELSE ToolMessage(outs[i \div 2])]
    \o <<AIMessage(a)>>

InitSave ==
  /\ prog = "mcp_client"
  /\ pc = "save"
  /\ status = "running"
  /\ raised = "none"
  /\ clock = 0
  /\ files = << >>
  /\ question \in Questions
  /\ \E outs \in SeqsUpTo(Texts, MaxOutputs), a \in Answers :
       response = ResponseOf(question, outs, a)
  /\ returned = NoValue
  /\ node = "none"
  /\ entered = << >>
  /\ state = NoValue
  /\ tools = << >>
  /\ tool_calls = << >>
  /\ plans = << >>
  /\ invoked = << >>
  /\ fetches = 0
  /\ results = << >>
  /\ runs = << >>

SpecSave == InitSave /\ [][ClientSave]_vars

\* answer_question right before save_to_markdown, for a question of qs and
\* tool outputs of texts
BeforeSave(qs, texts) ==
  /\ prog = "mcp_client"
  /\ pc = "save"
  /\ status = "running"
  /\ raised = "none"
  /\ clock = 0
  /\ files = << >>
  /\ question \in qs
  /\ \E outs \in SeqsUpTo(texts, MaxOutputs), a \in Answers :
       response = ResponseOf(question, outs, a)
  /\ returned = NoValue
  /\ node = "none"
  /\ entered = << >>
  /\ state = NoValue
  /\ tools = << >>
  /\ tool_calls = << >>
  /\ plans = << >>
  /\ invoked = << >>
  /\ fetches = 0
  /\ results = << >>
  /\ runs = << >>

\* save_to_markdown over tool outputs with URLs of every shape
InitExtract == BeforeSave(Questions, ExtractTexts)
SpecExtract == InitExtract /\ [][ClientSave]_vars

\* save_to_markdown over questions of every shape
InitSlug == BeforeSave(SlugQuestions, ShortTexts)
SpecSlug == InitSlug /\ [][ClientSave]_vars


(***************************************************************************)
(* mcp_client.py started twice with the same question: two processes that  *)
(* share the outputs/ directory and the wall clock, each standing right     *)
(* before its save_to_markdown call. Path.write_text opens the file for     *)
(* writing, which creates or empties it, then writes the text at the start  *)
(* of the file and closes it; between the two another process may run.      *)
(* Within one process nothing can see the file between the two steps, so    *)
(* ClientSave takes them as one.                                            *)
(***************************************************************************)
RunIds == {1, 2}

\* the tool outputs the two processes may have got
RaceTexts == {TextLabelled, TextNone}

\* open(mode='w') of write_text: the file exists and is empty
OpenTruncate(dir, name) == (name :> << >>) @@ dir

\* f.write(data) of write_text through a handle opened on the empty file:
\* data goes to offset 0 on; what the file holds past it stays
WriteAtStart(old, data) == data \o SubSeq(old, Len(data) + 1, Len(old))

InitTwoRuns ==
  /\ prog = "mcp_client"
  /\ pc = "save"
  /\ status = "running"
  /\ raised = "none"
  /\ clock = 0
  /\ files = << >>
  /\ question \in Questions
  /\ response = << >>
  /\ returned = NoValue
  /\ node = "none"
  /\ entered = << >>
  /\ state = NoValue
  /\ tools = << >>
  /\ tool_calls = << >>
  /\ plans = << >>
  /\ invoked = << >>
  /\ fetches = 0
  /\ results = << >>
  /\ \E resp \in [RunIds -> {ResponseOf(question, outs, a) :
                              outs \in SeqsUpTo(RaceTexts, MaxOutputs), a \in Answers}] :
       runs = [r \in RunIds |->
                 [pc       |-> "save",
                  response |-> resp[r],
                  filepath |-> NoValue,
                  content  |-> << >>,
                  wrote    |-> 0]]

\* save_to_markdown of process r up to the open of write_text: the file name
\* and md_content are computed from the clock, the file is created or emptied
RunOpen(r) ==
  /\ runs[r].pc = "save"
  /\ LET messages     == runs[r].response
         tool_outputs == ToolOutputsOf(messages)
         final_answer == messages[Len(messages)].content
         filepath     == Filename(clock, question)
         content      == md_text(md_content(question, final_answer, tool_outputs, clock))
     IN  /\ files' = OpenTruncate(files, filepath)
         /\ runs' = [runs EXCEPT ![r].pc = "opened",
                                 ![r].filepath = filepath,
                                 ![r].content = content]
  /\ UNCHANGED <<prog, pc, status, raised, clock, question, response, returned, results>>
  /\ UNCHANGED wfVars

\* the write and close of write_text of process r; wrote is the place of this
\* write among the writes of the two processes
RunWrite(r) ==
  /\ runs[r].pc = "opened"
  /\ files' = [files EXCEPT ![runs[r].filepath] = WriteAtStart(@, runs[r].content)]
  /\ runs' = [runs EXCEPT ![r].pc = "done",
                          ![r].wrote = 1 + Cardinality({o \in RunIds : runs[o].wrote > 0})]
  /\ UNCHANGED <<prog, pc, status, raised, clock, question, response, returned, results>>
  /\ UNCHANGED wfVars

\* the wall clock advances while a process is still at work
RunsTick ==
  /\ \E r \in RunIds : runs[r].pc # "done"
  /\ clock < MaxClock
  /\ clock' = clock + 1
  /\ UNCHANGED <<prog, pc, status, raised, files, question, response, returned, results>>
  /\ UNCHANGED wfVars
  /\ UNCHANGED runs

FirstRunOpen == RunOpen(1)
FirstRunWrite == RunWrite(1)
SecondRunOpen == RunOpen(2)
SecondRunWrite == RunWrite(2)

NextTwoRuns ==
  \/ FirstRunOpen
  \/ FirstRunWrite
  \/ SecondRunOpen
  \/ SecondRunWrite
  \/ RunsTick

SpecTwoRuns == InitTwoRuns /\ [][NextTwoRuns]_vars

(***************************************************************************)
(* Properties.                                                             *)
(***************************************************************************)
\* mcp_client has written its report and returned to main
Saved == prog = "mcp_client" /\ status = "answered"

\* the report that run wrote
Report == files[returned.filepath]

\* one of the two three-step workflows is the script
WorkflowProg == prog \in {"simple_langgraph_mcp", "langgraph_mcp_app"}

\* the workflow's result field: final_report / result
ResultField ==
  IF prog = "simple_langgraph_mcp" THEN state.final_report ELSE state.result

\* a text that reports an error
IsErrorText(t) == HasAt(t, 1, <<"E","r","r","o","r">>)

\* C1: the Images list of a report holds every URL of the tool outputs once,
\* at the place of its first occurrence: it is the list of all matches of all
\* outputs, in order, with every repeated URL dropped, whichever output the
\* repetition is in.
C1_EachUrlListedOnce ==
  Saved =>
    LET urls == [i \in 1..Len(Report.images) |-> Report.images[i].url]
    IN  /\ \A i, j \in 1..Len(urls) : urls[i] = urls[j] => i = j
        /\ urls = RemoveDuplicates(all_images(ToolOutputsOf(response)))

\* C10: in the Tool Outputs section an output of at most 2000 characters
\* stands unchanged, and a longer one stands as its first 2000 characters
\* followed at once by "\n... (truncated)".
C10_TruncationAt2000 ==
  Saved =>
    LET outs   == ToolOutputsOf(response)
        bodies == Report.outputs
        marker == <<"\n",".",".","."," ","(","t","r","u","n","c","a","t","e","d",")">>
    IN  /\ Len(bodies) = Len(outs)
        /\ \A i \in 1..Len(outs) :
             /\ Len(outs[i]) <= 2000 => bodies[i] = outs[i]
             /\ Len(outs[i]) > 2000 =>
                  /\ Len(bodies[i]) = 2000 + Len(marker)
                  /\ SubSeq(bodies[i], 1, 2000) = SubSeq(outs[i], 1, 2000)
                  /\ SubSeq(bodies[i], 2001, Len(bodies[i])) = marker

\* a report was saved that holds an output of exactly 2000 characters and a
\* longer one
C10_Witness ==
  /\ Saved
  /\ \E i, j \in 1..Len(ToolOutputsOf(response)) :
       /\ Len(ToolOutputsOf(response)[i]) = 2000
       /\ Len(ToolOutputsOf(response)[j]) > 2000

\* C3: when the agent call of mcp_client raises, main gets an error and no
\* return value, the run is over, and outputs/ holds no file.
C3_AgentFailureLeavesNoReport ==
  (prog = "mcp_client" /\ raised = "agent") =>
    /\ status = "error"
    /\ pc = "end"
    /\ returned = NoValue
    /\ DOMAIN files = {}
    /\ ~ENABLED Next

\* the agent raised after tool outputs had already come in
C3_Witness ==
  /\ prog = "mcp_client" /\ raised = "agent"
  /\ Len(ToolOutputsOf(response)) >= 1

\* every tool output the State of the simple workflow holds: the two slots
\* and the tool entries of the messages
CapturedOutputs ==
  (IF state.nasa_data = << >> THEN << >> ELSE <<state.nasa_data>>)
    \o (IF state.news_data = << >> THEN << >> ELSE <<state.news_data>>)
    \o ToolOutputsOf(state.messages)

\* C2: a delegated step whose planner reply names a tool of no server and a
\* tool of the server, the latter returning a good text: once the run has
\* completed, the captured outputs hold an error text for the one and the
\* good text for the other, and the final report is not empty.
C2_UnknownToolLeavesErrorEntry ==
  (prog = "simple_langgraph_mcp" /\ status = "reported") =>
    \A n \in DelegatedNodes :
      ( /\ Len(plans[n]) = 2
        /\ \E i \in 1..2 : plans[n][i] \notin Range(ServerTools)
        /\ Len(invoked[n]) = 1
        /\ ~IsErrorText(invoked[n][1]) )
      => /\ \E i, j \in 1..Len(CapturedOutputs) :
              /\ i # j
              /\ IsErrorText(CapturedOutputs[i])
              /\ CapturedOutputs[j] = invoked[n][1]
         /\ returned # << >>

\* C4: when the planner/LLM call of a workflow step raises, the run is over
\* with an error for its caller, no step after the failing one was entered
\* or can run, and the result field is still empty.
C4_PlannerFailureAbortsRun ==
  (WorkflowProg /\ raised = "planner") =>
    /\ status \in {"error", "crashed"}
    /\ returned = NoValue
    /\ ResultField = << >>
    /\ node = entered[Len(entered)]
    /\ ~ENABLED Next

\* the LLM call of the last step of the simple workflow raised, after both
\* delegated steps had stored data
C4_Witness ==
  /\ prog = "simple_langgraph_mcp" /\ raised = "planner"
  /\ node = "create_report"
  /\ state.nasa_data # << >> /\ state.news_data # << >>

\* C5: when the agent call of explore_nasa raised, the caller gets an
\* exception, or at least a value no successful call can return.
C5_FailureIsNoAnswer ==
  \A i \in 1..Len(results) :
    results[i].agent_raised =>
      \/ results[i].got.kind = "raise"
      \/ \A o \in AgentOutcomes : ~o.raises => explore_nasa(o) # results[i].got

\* the steps of the running workflow, in the order they are declared to run
DeclaredOrder ==
  IF prog = "simple_langgraph_mcp"
    THEN <<"get_nasa", "get_news", "create_report">>
    ELSE <<"get_astronomy_picture", "search_space_news", "analyze_results">>

\* C6: the steps entered so far are the first steps of the declared order,
\* each once; the graph stands at the last one entered; at the end marker
\* every declared step has been entered.
C6_StepsInDeclaredOrder ==
  WorkflowProg =>
    /\ Len(entered) <= Len(DeclaredOrder)
    /\ \A i \in 1..Len(entered) : entered[i] = DeclaredOrder[i]
    /\ node = "none" => entered = << >>
    /\ node \notin {"none", "END"} => node = entered[Len(entered)]
    /\ node = "END" => entered = DeclaredOrder

\* both workflows can reach their end marker
C6_Witness == WorkflowProg /\ node = "END" /\ prog = "langgraph_mcp_app"

\* C7: each of nasa_data and news_data is assigned at most once in a run.
C7_SlotWrittenAtMostOnce ==
  (prog = "simple_langgraph_mcp" /\ node # "none") =>
    \A n \in DelegatedNodes : SlotWrites(n) <= 1

\* step n has returned its state: a later step was entered
StepReturned(n) == \E i \in 1..(Len(entered) - 1) : entered[i] = n

\* C8: once a delegated step has returned, the results of its executed
\* requests stand in the state's messages as tool entries, in request order.
C8_ToolResultsInMessages ==
  (prog = "simple_langgraph_mcp" /\ node # "none") =>
    ToolOutputsOf(state.messages)
      = (IF StepReturned("get_nasa") THEN invoked["get_nasa"] ELSE << >>)
          \o (IF StepReturned("get_news") THEN invoked["get_news"] ELSE << >>)

\* C9: a pipeline run fetches the tool catalogue once: never a second time,
\* and a completed run has fetched it.
C9_CatalogueFetchedOnce ==
  WorkflowProg =>
    /\ fetches <= 1
    /\ node = "END" => fetches = 1

\* the URLs of the Images section of the report, in order
ReportUrls == [i \in 1..Len(Report.images) |-> Report.images[i].url]

\* the URLs as they stand in a text: every run of non-space characters that
\* starts the text or follows a space and begins with http:// or https://
UrlTokens(text) ==
  {SubSeq(text, i, RunEnd(text, i)) :
     i \in {j \in 1..Len(text) :
              /\ SchemeLen(text, j) > 0
              /\ (j = 1 \/ text[j - 1] \in {" ", "\t", "\n"})}}

\* the URLs a labeled pattern matches in a text
LabeledUrls(text) ==
  {SubSeq(text, i + Len(nasa_patterns[p].label), MatchEnd(nasa_patterns[p], text, i)) :
     <<p, i>> \in {<<q, j>> \in (1..3) \X (1..Len(text)) :
                     MatchEnd(nasa_patterns[q], text, j) > 0}}

\* C11: a report over one tool output lists every URL a labeled pattern
\* matched exactly once, and lists no more artifacts than the output holds
\* URLs: the bare pattern adds no second artifact for a labeled occurrence.
C11_LabeledUrlEmittedOnce ==
  (Saved /\ Len(ToolOutputsOf(response)) = 1) =>
    LET text == ToolOutputsOf(response)[1]
    IN  /\ \A u \in LabeledUrls(text) :
             Cardinality({x \in 1..Len(ReportUrls) : ReportUrls[x] = u}) = 1
        /\ Len(ReportUrls) <= Cardinality(UrlTokens(text))

\* C12: every URL of the Images section stands verbatim in at least one of
\* the tool outputs the report was made from.
C12_UrlsOccurInOutputs ==
  Saved =>
    \A x \in 1..Len(ReportUrls) :
      \E k \in 1..Len(ToolOutputsOf(response)) :
        \E i \in 1..Len(ToolOutputsOf(response)[k]) :
          HasAt(ToolOutputsOf(response)[k], i, ReportUrls[x])

\* a report with several images, one of them cut out of a longer URL
C12_Witness ==
  /\ Saved
  /\ Len(ReportUrls) >= 3
  /\ \E k \in 1..Len(ToolOutputsOf(response)) : ToolOutputsOf(response)[k] = TextQuery
  /\ \E k \in 1..Len(ToolOutputsOf(response)) : ToolOutputsOf(response)[k] = TextRover

\* C13: the report's file name is the timestamp, the slug and ".md"; the slug
\* holds only alphanumerics, hyphens and underscores (no whitespace), is at
\* most 50 characters long, and is "Whats_up" for the question "What's up?".
C13_SlugHoldsNoWhitespace ==
  Saved =>
    LET name == returned.filepath
    IN  /\ name.timestamp = clock
        /\ name.suffix = ".md"
        /\ Len(name.slug) <= 50
        /\ \A i \in 1..Len(name.slug) :
             /\ name.slug[i] \notin {" ", "\t", "\n"}
             /\ name.slug[i] \in Letters \cup Digits \cup {"-", "_"}
        /\ question = <<"W","h","a","t","'","s"," ","u","p","?">> =>
             name.slug = <<"W","h","a","t","s","_","u","p">>

\* the first place of x in the sequence s, 0 when it is not in s
FirstIndex(s, x) ==
  IF \E i \in 1..Len(s) : s[i] = x
    THEN CHOOSE i \in 1..Len(s) : s[i] = x /\ \A j \in 1..(i - 1) : s[j] # x
    ELSE 0

\* the number of images the report lists for the outputs before output k
ImagesBefore(k) ==
  LET outs == ToolOutputsOf(response)
      F[j \in 0..Len(outs)] ==
        IF j = 0 THEN 0 ELSE F[j - 1] + Len(extract_images_from_text(outs[j]))
  IN  F[k - 1]

\* C16: the Images list is made of one block per tool output, the blocks in
\* the order of the outputs; the block of an output holds each URL matched
\* in it once, the URLs ordered by their first match, wherever the later
\* matches of the same URL stand.
C16_ImagesFollowOutputOrder ==
  Saved =>
    LET outs == ToolOutputsOf(response)
    IN  /\ Len(ReportUrls) = ImagesBefore(Len(outs) + 1)
        /\ \A k \in 1..Len(outs) :
             LET block == SubSeq(ReportUrls, ImagesBefore(k) + 1, ImagesBefore(k + 1))
                 found == AllMatches(outs[k])
             IN  /\ Range(block) = Range(found)
                 /\ \A a, b \in 1..Len(block) :
                      a < b => FirstIndex(found, block[a]) < FirstIndex(found, block[b])

\* a report over two outputs with different images, the first output naming
\* a URL again after another URL
C16_Witness ==
  /\ Saved
  /\ Len(ToolOutputsOf(response)) = 2
  /\ ToolOutputsOf(response)[1] = TextCapitals
  /\ ToolOutputsOf(response)[2] = TextRover
  /\ Len(ReportUrls) = 4

\* C17: the caption of every listed image follows from its URL: "Astronomy
\* Picture" when "apod" or "astronomy" is in it, else "Mars Rover Photo" when
\* "mars" is in it, else "Image"; capitals do not count as a match.
C17_CaptionFromUrl ==
  Saved =>
    \A x \in 1..Len(Report.images) :
      LET url  == Report.images[x].url
          apod == \/ \E i \in 1..Len(url) : HasAt(url, i, <<"a","p","o","d">>)
                  \/ \E i \in 1..Len(url) :
                       HasAt(url, i, <<"a","s","t","r","o","n","o","m","y">>)
          mars == \E i \in 1..Len(url) : HasAt(url, i, <<"m","a","r","s">>)
      IN  /\ apod => Report.images[x].caption = "Astronomy Picture"
          /\ (~apod /\ mars) => Report.images[x].caption = "Mars Rover Photo"
          /\ (~apod /\ ~mars) => Report.images[x].caption = "Image"

\* a report that lists a URL with both keywords, a URL with "MARS" in
\* capitals and a URL with "mars" alone
C17_Witness ==
  /\ Saved
  /\ \E x, y, z \in 1..Len(Report.images) :
       /\ Report.images[x].url = UrlApodMars
       /\ Report.images[y].url = UrlCapitals
       /\ Report.images[z].url = UrlMars

\* C14: no run of the simple workflow is ended by the exception of a tool
\* invocation: such a failure is kept as text and the later steps run.
C14_ToolFailureNeverAborts ==
  prog = "simple_langgraph_mcp" => raised # "tool"

\* C15: when both processes have written and took their file names in the
\* same second, the names are equal, outputs/ holds that one file, and the
\* file holds exactly the text of the process that wrote last.
C15_LaterWriterReplacesWhole ==
  ( /\ runs # << >>
    /\ \A r \in RunIds : runs[r].pc = "done"
    /\ runs[1].filepath.timestamp = runs[2].filepath.timestamp )
  => /\ runs[1].filepath = runs[2].filepath
     /\ DOMAIN files = {runs[1].filepath}
     /\ \A r \in RunIds :
          runs[r].wrote = 2 => files[runs[r].filepath] = runs[r].content

=============================================================================
